---- MODULE Spec2Model ----
(***************************************************************************)
(* Model of src/app.py: a Streamlit chat page over a remote document store *)
(* and a generation endpoint.  Every user interaction re-executes the      *)
(* script from the top; one action of the model is one such execution,     *)
(* apart from the places where the script waits while the store may        *)
(* change: the poll loop of the upload handler (one step per poll), the    *)
(* restart after an assignment of the current file or a clear (st.rerun(), *)
(* the restarted run lists again) and the generation call.                 *)
(*                                                                         *)
(* Text is a sequence of atoms (TLA+ strings); the text it stands for is   *)
(* the concatenation of its atoms.  "\n" is always an atom of its own.     *)
(***************************************************************************)
EXTENDS Naturals, Sequences, FiniteSets

VARIABLES
    api_key,          \* value of the "Enter Gemini API Key" text input
    chat_mode,        \* value of the "Context:" radio
    chat_history,     \* st.session_state.chat_history
    current_file_uri, \* st.session_state.current_file_uri
    store,            \* the remote store: what genai.list_files() yields
    next_id,          \* number of handles the store has created so far
    temp_files,       \* names of the files present in the working directory
    event,            \* the latest thing that happened: which widget the
                      \* user touched, or "store" when the store changed
    pc,               \* "idle"; "polling" inside the upload handler;
                      \* "restarting" between the assignment of the
                      \* current file and the listing of the restarted
                      \* run; "clearing" between the emptying of the
                      \* conversation and the restarted run;
                      \* "generating" inside generate_content
    gemini_file,      \* local variable gemini_file of the upload handler
    temp_filename,    \* local variable temp_filename of the upload handler
    calls,            \* remote calls made while handling the latest event
    notices,          \* st.warning/st.error messages of the latest event
    active_files,     \* script variable active_files at the end of the run
    request_content,  \* argument of generate_content in the latest run
    turns,            \* turns that reached the chat handler since the
                      \* conversation was last empty (history variable)
    load_button,      \* whether "Load Selected File" is on the page the
                      \* latest run has rendered
    chat_input        \* whether the chat input is on that page

vars == <<api_key, chat_mode, chat_history, current_file_uri, store, next_id,
          temp_files, event, pc, gemini_file, temp_filename, calls, notices,
          active_files, request_content, turns, load_button, chat_input>>

-----------------------------------------------------------------------------
(* Bounds of the model *)

\* largest number of handles the store creates in one behaviour
MaxFiles == 2
\* largest length of chat_history
MaxHist == 4
\* a count of remote calls saturates here ("this many or more")
CallCap == 2

-----------------------------------------------------------------------------
(* Values *)

Single == "Single Document"
All == "All Documents"
Modes == {Single, All}

NoInput == ""
Keys == {NoInput, "key"}

\* Python's None, as the value of api_key (line 70)
NoKey == "None"

\* Python's None as a handle (line 61); a record so that it compares with
\* handles
None == [name |-> "None", display_name |-> "", state |-> ""]

PROCESSING == "PROCESSING"
ACTIVE == "ACTIVE"
FAILED == "FAILED"
States == {PROCESSING, ACTIVE, FAILED}

\* names the file uploader can hold; display names and states of the files
\* that other clients put in the store
FileNames == {"a.pdf"}
DisplayNames == {""}
ForeignStates == {ACTIVE}

IdName(n) == <<"files/1", "files/2", "files/3", "files/4", "files/5">>[n]

\* the texts of a conversation: the i-th turn since the conversation was
\* last empty submits Msg(i), and Resp(i) is what generation returns for it,
\* so that every turn is told from every other
Msg(i) ==
    << <<"q1">>, <<"q2", "\n", "b">>, <<"q3">>, <<"q4">>, <<"q5">>, <<"q6">> >>[i]
Resp(i) ==
    << <<"r1">>, <<"r2">>, <<"r3", "\n">>, <<"r4">>, <<"r5">>, <<"r6">> >>[i]

CallNames == {"upload_file", "get_file", "list_files", "generate_content"}
NoCalls == [c \in CallNames |-> 0]
Called(c, n) == [c EXCEPT ![n] = IF @ < CallCap THEN @ + 1 ELSE @]

FilePart(f) == [kind |-> "file", file |-> f, text |-> <<>>]
TextPart(t) == [kind |-> "text", file |-> None, text |-> t]

RECURSIVE FileParts(_)
FileParts(fs) ==
    IF fs = <<>> THEN <<>> ELSE <<FilePart(Head(fs))>> \o FileParts(Tail(fs))

-----------------------------------------------------------------------------
(* Pure parts of the script *)

\* the fallback of lines 73-74 switched on
ApiKey_Env(api_key_input) ==
    IF api_key_input # NoInput THEN api_key_input ELSE "GEMINI_API_KEY"

\* lines 69-74: the key is the text input or nothing; the environment
\* fallback is commented out
ApiKey(api_key_input) ==
    IF api_key_input # NoInput THEN api_key_input ELSE NoKey

\* line 132: f.display_name or f.name
Label(f) == IF f.display_name # "" THEN f.display_name ELSE f.name

\* a dictionary in which the first file with a label keeps it
file_options_First(remote_files) ==
    [l \in {Label(remote_files[i]) : i \in DOMAIN remote_files} |->
        remote_files[CHOOSE i \in DOMAIN remote_files :
                        /\ Label(remote_files[i]) = l
                        /\ \A j \in 1..(i - 1) : Label(remote_files[j]) # l]]

\* line 132: {f.display_name or f.name: f for f in remote_files}; a later
\* file with the same label replaces the earlier one
RECURSIVE file_options(_)
file_options(remote_files) ==
    IF remote_files = <<>> THEN [l \in {} |-> None]
    ELSE LET n == Len(remote_files)
             f == remote_files[n]
             before == file_options(SubSeq(remote_files, 1, n - 1))
         IN  [l \in DOMAIN before \cup {Label(f)} |->
                 IF l = Label(f) THEN f ELSE before[l]]

\* lines 207-214: the triple-quoted instruction block, newline by newline
system_prompt ==
    << "\n", "            INSTRUCTIONS:",
       "\n", "            1. You are a Knowledge Base Assistant.",
       "\n", "            2. Answer the user's question STRICTLY based on the provided documents.",
       "\n", "            3. Do NOT use outside knowledge or general training data.",
       "\n", "            4. If the answer cannot be found in the documents, politely state that the information is not present in the files.",
       "\n", "            5. Cite the document name if possible.",
       "\n", "            " >>

\* str.upper() on the two roles the script writes
Upper(role) ==
    CASE role = "user" -> "USER"
      [] role = "assistant" -> "ASSISTANT"
      [] OTHER -> role

\* line 217: chat_history[:-1]
AllButLast(history) ==
    IF history = <<>> THEN <<>> ELSE SubSeq(history, 1, Len(history) - 1)

\* lines 216-218: context_prompt += f"{role.upper()}: {msg}\n"
RECURSIVE context_prompt(_)
context_prompt(prior) ==
    IF prior = <<>> THEN <<>>
    ELSE <<Upper(Head(prior)[1]), ": ">> \o Head(prior)[2] \o <<"\n">>
         \o context_prompt(Tail(prior))

\* the whole of chat_history, the newest entry included, as context
final_prompt_Whole(history, prompt) ==
    system_prompt \o <<"\n", "\n">> \o context_prompt(history)
    \o <<"\n", "USER", ": ">> \o prompt \o <<"\n", "ASSISTANT", ":">>

\* line 220, with chat_history as it is after line 190
final_prompt(history, prompt) ==
    system_prompt \o <<"\n", "\n">> \o context_prompt(AllButLast(history))
    \o <<"\n", "USER", ": ">> \o prompt \o <<"\n", "ASSISTANT", ":">>

\* the prompt put in front of the files
RequestContent_PromptFirst(files, prompt_text) ==
    <<TextPart(prompt_text)>> \o FileParts(files)

\* line 223: active_files + [final_prompt]
RequestContent(files, prompt_text) ==
    FileParts(files) \o <<TextPart(prompt_text)>>

\* Single mode without the check of line 167
Resolve_Unchecked(mode, cur, listing, ok) ==
    IF mode = Single
    THEN [files |-> <<cur>>, stop |-> FALSE, notices |-> {}]
    ELSE IF ~ok
         THEN [files |-> <<>>, stop |-> TRUE, notices |-> {"Failed to fetch files"}]
         ELSE IF listing = <<>>
              THEN [files |-> <<>>, stop |-> TRUE, notices |-> {"No files found on the server"}]
              ELSE [files |-> listing, stop |-> FALSE, notices |-> {}]

\* All mode that starts from the current file instead of from []
Resolve_KeepsCurrent(mode, cur, listing, ok) ==
    LET first == IF cur = None THEN <<>> ELSE <<cur>>
    IN  IF mode = Single
        THEN IF cur = None
             THEN [files |-> <<>>, stop |-> TRUE, notices |-> {}]
             ELSE [files |-> <<cur>>, stop |-> FALSE, notices |-> {}]
        ELSE IF ~ok
             THEN [files |-> <<>>, stop |-> TRUE, notices |-> {"Failed to fetch files"}]
             ELSE IF first \o listing = <<>>
                  THEN [files |-> <<>>, stop |-> TRUE, notices |-> {"No files found on the server"}]
                  ELSE [files |-> first \o listing, stop |-> FALSE, notices |-> {}]

\* a context check that reports the exception of line 174 and goes on
Resolve_GoesOn(mode, cur, listing, ok) ==
    IF mode = Single
    THEN IF cur = None
         THEN [files |-> <<>>, stop |-> TRUE, notices |-> {}]
         ELSE [files |-> <<cur>>, stop |-> FALSE, notices |-> {}]
    ELSE IF ~ok
         THEN [files |-> IF cur = None THEN listing ELSE <<cur>>,
               stop |-> cur = None /\ listing = <<>>,
               notices |-> {"Failed to fetch files"}]
         ELSE IF listing = <<>>
              THEN [files |-> <<>>, stop |-> TRUE, notices |-> {"No files found on the server"}]
              ELSE [files |-> listing, stop |-> FALSE, notices |-> {}]

\* lines 164-180: the value of active_files, whether the run stops, and what
\* is shown; ok tells whether list_files (line 174) returns
Resolve(mode, cur, listing, ok) ==
    IF mode = Single
    THEN IF cur = None
         THEN [files |-> <<>>, stop |-> TRUE, notices |-> {}]
         ELSE [files |-> <<cur>>, stop |-> FALSE, notices |-> {}]
    ELSE IF ~ok
         THEN [files |-> <<>>, stop |-> TRUE, notices |-> {"Failed to fetch files"}]
         ELSE IF listing = <<>>
              THEN [files |-> <<>>, stop |-> TRUE, notices |-> {"No files found on the server"}]
              ELSE [files |-> listing, stop |-> FALSE, notices |-> {}]

\* lines 126-140 when "Load Selected File" is not pressed: what is shown
SelectExisting(listing, ok) ==
    IF ~ok THEN {"Could not list files"} ELSE {}

\* the one list_files call of a run with the key present: line 128 in
\* Single mode, line 174 in All mode
ListCall(c) == Called(c, "list_files")

\* lines 87, 126-135: a run renders "Load Selected File" when it is in
\* Single mode and its list_files call returns a listing that is not empty
LoadOffered(mode, listing, ok) == mode = Single /\ ok /\ listing # <<>>

\* a run of lines 83-188 in which no button is pressed and no chat text is
\* submitted: the sidebar, then the context check; st.chat_input (line 188)
\* is rendered when the context check does not stop the run
Pass(c, mode, cur, listing, ok) ==
    LET r == Resolve(mode, cur, listing, ok)
    IN  [calls |-> ListCall(c),
         notices |-> r.notices \cup
                     (IF mode = Single THEN SelectExisting(listing, ok) ELSE {}),
         files |-> r.files,
         offered |-> LoadOffered(mode, listing, ok),
         input |-> ~r.stop]


-----------------------------------------------------------------------------
(* The state after the page is first loaded: no key has been typed, so the
   first run stops at line 81 *)

NeedKey == {"Please enter your API Key to proceed."}

Init ==
    /\ api_key = NoInput
    /\ chat_mode = Single
    /\ chat_history = <<>>
    /\ current_file_uri = None
    /\ store = <<>>
    /\ next_id = 0
    /\ temp_files = {}
    /\ event = "page"
    /\ pc = "idle"
    /\ gemini_file = None
    /\ temp_filename = ""
    /\ calls = NoCalls
    /\ notices = NeedKey
    /\ active_files = <<>>
    /\ request_content = <<>>
    /\ turns = <<>>
    /\ load_button = FALSE
    /\ chat_input = FALSE

upload_locals == <<pc, gemini_file, temp_filename>>
remote == <<store, next_id>>

\* the end of a run that does not reach generate_content; p is what the run
\* called, showed and resolved
EndRun(p) ==
    /\ calls' = p.calls
    /\ notices' = p.notices
    /\ active_files' = p.files
    /\ request_content' = <<>>
    /\ load_button' = p.offered
    /\ chat_input' = p.input

frame == <<chat_history, current_file_uri, remote, temp_files, upload_locals,
           turns>>

-----------------------------------------------------------------------------
(* One action per user interaction; each is a run of the script, up to the
   place where that run restarts the script or waits *)

\* lines 76-81: a run made without a key (the page is run again with the
\* key input still empty) stops in the sidebar
BlockedRun ==
    /\ pc = "idle"
    /\ ApiKey(api_key) = NoKey
    /\ event' = "blocked"
    /\ EndRun([calls |-> NoCalls, notices |-> NeedKey, files |-> <<>>,
                    offered |-> FALSE, input |-> FALSE])
    /\ UNCHANGED <<api_key, chat_mode, frame>>

\* the user edits the key input (line 67).  A run that stops at line 81 does
\* not render the radio (line 85); whether the radio then keeps its value
\* (kept) or is back at index 0 when it is rendered again is the
\* framework's choice, not the script's
SetApiKey(k, ok, kept) ==
    /\ pc = "idle"
    /\ k # api_key
    /\ api_key' = k
    /\ event' = "key"
    /\ IF ApiKey(k) = NoKey
       THEN /\ chat_mode' = IF kept THEN chat_mode ELSE Single
            /\ EndRun([calls |-> NoCalls, notices |-> NeedKey, files |-> <<>>,
                    offered |-> FALSE, input |-> FALSE])
       ELSE /\ UNCHANGED chat_mode
            /\ EndRun(Pass(NoCalls, chat_mode, current_file_uri, store, ok))
    /\ UNCHANGED frame

\* the user picks the other radio option (line 85)
SetMode(m, ok) ==
    /\ pc = "idle"
    /\ ApiKey(api_key) # NoKey
    /\ m # chat_mode
    /\ chat_mode' = m
    /\ event' = "mode"
    /\ EndRun(Pass(NoCalls, m, current_file_uri, store, ok))
    /\ UNCHANGED <<api_key, frame>>

\* "Refresh File List" (lines 123-124) or "Refresh Available Files"
\* (lines 149-150): st.rerun() before anything is listed
Refresh(ok) ==
    /\ pc = "idle"
    /\ ApiKey(api_key) # NoKey
    /\ event' = "refresh"
    /\ EndRun(Pass(NoCalls, chat_mode, current_file_uri, store, ok))
    /\ UNCHANGED <<api_key, chat_mode, frame>>

\* what the sidebar has called and shown when the run gets below it without
\* "Load Selected File" pressed (lines 126-140 in Single mode); ok1 tells
\* whether list_files (line 128) returns
Sidebar(mode, listing, ok1) ==
    IF mode = Single
    THEN [calls |-> ListCall(NoCalls), notices |-> SelectExisting(listing, ok1)]
    ELSE [calls |-> NoCalls, notices |-> {}]

\* a clear that empties the whole session state
Clear_Everything(ok1) ==
    /\ pc = "idle"
    /\ ApiKey(api_key) # NoKey
    /\ event' = "clear"
    /\ chat_history' = <<>>
    /\ current_file_uri' = None
    /\ turns' = <<>>
    /\ pc' = "clearing"
    /\ LET sb == Sidebar(chat_mode, store, ok1)
       IN  /\ calls' = sb.calls
           /\ notices' = sb.notices
    /\ active_files' = <<>>
    /\ request_content' = <<>>
    /\ load_button' = LoadOffered(chat_mode, store, ok1)
    /\ chat_input' = FALSE
    /\ UNCHANGED <<api_key, chat_mode, remote, temp_files, gemini_file,
                   temp_filename>>

\* "Clear Chat History" (lines 153-155): the run has rendered the sidebar,
\* with its listing in Single mode, when it gets to the button; it empties
\* the conversation and ends in st.rerun().  The restarted run is the step
\* Restarted
Clear(ok1) ==
    /\ pc = "idle"
    /\ ApiKey(api_key) # NoKey
    /\ event' = "clear"
    /\ chat_history' = <<>>
    /\ turns' = <<>>
    /\ pc' = "clearing"
    /\ LET sb == Sidebar(chat_mode, store, ok1)
       IN  /\ calls' = sb.calls
           /\ notices' = sb.notices
    /\ active_files' = <<>>
    /\ request_content' = <<>>
    /\ load_button' = LoadOffered(chat_mode, store, ok1)
    /\ chat_input' = FALSE
    /\ UNCHANGED <<api_key, chat_mode, current_file_uri, remote, temp_files,
                   gemini_file, temp_filename>>

\* "Load Selected File" (lines 126-138) pressed on a page that has it, when
\* the listing of the run the press starts returns and is not empty;
\* selected_file_name is then one of the keys of file_options.  The run
\* ends in st.rerun() (line 138); the restarted run is the step Restarted
LoadSelected(selected_file_name) ==
    /\ pc = "idle"
    /\ ApiKey(api_key) # NoKey
    /\ chat_mode = Single
    /\ load_button
    /\ store # <<>>
    /\ selected_file_name \in DOMAIN file_options(store)
    /\ event' = "load"
    /\ current_file_uri' = file_options(store)[selected_file_name]
    /\ pc' = "restarting"
    /\ calls' = ListCall(NoCalls)
    /\ notices' = {}
    /\ active_files' = <<>>
    /\ request_content' = <<>>
    /\ chat_input' = FALSE
    /\ UNCHANGED <<api_key, chat_mode, chat_history, remote, temp_files,
                   gemini_file, temp_filename, turns, load_button>>

\* "Load Selected File" pressed on a page that has it, when the listing of
\* the run the press starts raises (line 139): the button is not reached
LoadUnlisted ==
    /\ pc = "idle"
    /\ ApiKey(api_key) # NoKey
    /\ chat_mode = Single
    /\ load_button
    /\ event' = "load"
    /\ EndRun(Pass(NoCalls, chat_mode, current_file_uri, store, FALSE))
    /\ UNCHANGED <<api_key, chat_mode, frame>>

\* "Load Selected File" pressed on a page that has it, when the listing of
\* the run the press starts returns empty (lines 129-130): st.info is shown
\* and the button is not reached
LoadNothingListed ==
    /\ pc = "idle"
    /\ ApiKey(api_key) # NoKey
    /\ chat_mode = Single
    /\ load_button
    /\ store = <<>>
    /\ event' = "load"
    /\ EndRun(Pass(NoCalls, chat_mode, current_file_uri, store, TRUE))
    /\ UNCHANGED <<api_key, chat_mode, frame>>

\* what generate_content / response.text yields for the next turn (lines
\* 225-227): a text, or an exception
Generation(answered) ==
    IF answered THEN [ok |-> TRUE, text |-> Resp(Len(turns) + 1)]
    ELSE [ok |-> FALSE, text |-> <<>>]

\* the user text assigned in place of the conversation
Ask_Replaces(history, prompt) == << <<"user", prompt>> >>

\* line 190: chat_history.append(("user", prompt))
Ask(history, prompt) == Append(history, <<"user", prompt>>)

\* a reply that is shown and never stored
Reply_NotStored(asked, gen) == asked

\* an exception stored as if it were the reply
Reply_ErrorStored(asked, gen) ==
    Append(asked, <<"assistant",
                    IF gen.ok THEN gen.text ELSE <<"An error occurred">> >>)

\* lines 225-232: the reply is appended; an exception is shown and nothing is
\* appended
Reply(asked, gen) ==
    IF gen.ok THEN Append(asked, <<"assistant", gen.text>>) ELSE asked

\* the user submits chat text on a page that has the chat input: the run up
\* to the generation call (lines 164-225); ok tells whether the one
\* list_files call of the run returns.  A run that the context check stops
\* does not reach line 188 and the text is dropped
SubmitTurn(ok) ==
    /\ pc = "idle"
    /\ ApiKey(api_key) # NoKey
    /\ chat_input
    /\ Len(chat_history) + 2 <= MaxHist
    /\ event' = "submit"
    /\ LET prompt == Msg(Len(turns) + 1)
           r == Resolve(chat_mode, current_file_uri, store, ok)
           sb == Sidebar(chat_mode, store, ok)
           asked == Ask(chat_history, prompt)
       IN  IF r.stop
           THEN /\ EndRun(Pass(NoCalls, chat_mode, current_file_uri, store, ok))
                /\ UNCHANGED <<chat_history, pc>>
           ELSE /\ chat_history' = asked
                /\ request_content' =
                       RequestContent(r.files, final_prompt(asked, prompt))
                /\ calls' = Called(ListCall(NoCalls), "generate_content")
                /\ notices' = sb.notices \cup r.notices
                /\ active_files' = r.files
                /\ load_button' = LoadOffered(chat_mode, store, ok)
                /\ chat_input' = TRUE
                /\ pc' = "generating"
    /\ UNCHANGED <<api_key, chat_mode, current_file_uri, remote, temp_files,
                   gemini_file, temp_filename, turns>>

\* generate_content returns or raises (lines 225-232) and the run ends
GenerationReturns(answered) ==
    /\ pc = "generating"
    /\ pc' = "idle"
    /\ event' = "submit"
    /\ LET gen == Generation(answered)
       IN  /\ chat_history' = Reply(chat_history, gen)
           /\ notices' = notices \cup
                  (IF gen.ok THEN {} ELSE {"An error occurred"})
           /\ turns' = Append(turns,
                              [q |-> chat_history[Len(chat_history)][2],
                               ok |-> gen.ok, text |-> gen.text])
    /\ UNCHANGED <<api_key, chat_mode, current_file_uri, remote, temp_files,
                   gemini_file, temp_filename, calls, active_files,
                   request_content, load_button, chat_input>>

-----------------------------------------------------------------------------
(* The upload handler, lines 93-120 *)

\* line 98: f"temp_{uploaded_file.name}"
TempName(name) == "temp_" \o name

\* "Upload to Gemini" when upload_file returns a handle, up to the first test
\* of the while loop (lines 95-105); state0 is the state of that handle
UploadBegin(name, state0) ==
    /\ pc = "idle"
    /\ ApiKey(api_key) # NoKey
    /\ chat_mode = Single
    /\ next_id < MaxFiles
    /\ event' = "upload"
    /\ LET f == [name |-> IdName(next_id + 1), display_name |-> name,
                 state |-> state0]
       IN  /\ store' = Append(store, f)
           /\ gemini_file' = f
    /\ next_id' = next_id + 1
    /\ temp_files' = temp_files \cup {TempName(name)}
    /\ temp_filename' = TempName(name)
    /\ pc' = "polling"
    /\ calls' = Called(NoCalls, "upload_file")
    /\ notices' = {}
    /\ active_files' = <<>>
    /\ request_content' = <<>>
    /\ load_button' = FALSE
    /\ chat_input' = FALSE
    /\ UNCHANGED <<api_key, chat_mode, chat_history, current_file_uri, turns>>

UploadErrors == {"open raises", "write raises", "upload raises"}

\* "Upload to Gemini" when open (line 99), write (line 100) or upload_file
\* (line 102) raises: lines 119-120, then the rest of the run
UploadRaises(name, out, ok) ==
    /\ pc = "idle"
    /\ ApiKey(api_key) # NoKey
    /\ chat_mode = Single
    /\ event' = "upload"
    /\ temp_files' = IF out = "open raises" THEN temp_files
                     ELSE temp_files \cup {TempName(name)}
    /\ LET c == IF out = "upload raises"
                THEN Called(NoCalls, "upload_file") ELSE NoCalls
           p == Pass(c, chat_mode, current_file_uri, store, ok)
       IN  EndRun([p EXCEPT !.notices = @ \cup {"Upload failed"}])
    /\ UNCHANGED <<api_key, chat_mode, chat_history, current_file_uri, remote,
                   upload_locals, turns>>

\* a fetch that returns the handle in the state it was uploaded in
get_file_Pending(listing, name) ==
    LET held == {i \in DOMAIN listing : listing[i].name = name}
    IN  IF held = {} THEN None
        ELSE [listing[CHOOSE i \in held : TRUE] EXCEPT !.state = PROCESSING]

\* the handle the store holds under a name, None when it holds none
RECURSIVE get_file(_, _)
get_file(listing, name) ==
    IF listing = <<>> THEN None
    ELSE IF Head(listing).name = name THEN Head(listing)
    ELSE get_file(Tail(listing), name)

\* one turn of the while loop (lines 105-107) in which get_file returns
UploadPoll ==
    /\ pc = "polling"
    /\ gemini_file.state = PROCESSING
    /\ get_file(store, gemini_file.name) # None
    /\ gemini_file' = get_file(store, gemini_file.name)
    /\ calls' = Called(calls, "get_file")
    /\ event' = "upload"
    /\ UNCHANGED <<api_key, chat_mode, chat_history, current_file_uri, remote,
                   temp_files, pc, temp_filename, notices, active_files,
                   request_content, turns, load_button, chat_input>>

\* an except clause that reports the exception and goes back into the loop
UploadPollRaises_Retries(ok) ==
    /\ pc = "polling"
    /\ gemini_file.state = PROCESSING
    /\ event' = "upload"
    /\ calls' = Called(calls, "get_file")
    /\ notices' = notices \cup {"Upload failed"}
    /\ UNCHANGED <<api_key, chat_mode, chat_history, current_file_uri, remote,
                   temp_files, upload_locals, active_files, request_content,
                   turns, load_button, chat_input>>

\* one turn of the while loop in which get_file raises, as it does when the
\* store no longer holds the handle: lines 119-120, then the rest of the run
UploadPollRaises(ok) ==
    /\ pc = "polling"
    /\ gemini_file.state = PROCESSING
    /\ pc' = "idle"
    /\ gemini_file' = None
    /\ temp_filename' = ""
    /\ event' = "upload"
    /\ LET p == Pass(Called(calls, "get_file"), chat_mode, current_file_uri,
                     store, ok)
       IN  EndRun([p EXCEPT !.notices = @ \cup {"Upload failed"}])
    /\ UNCHANGED <<api_key, chat_mode, chat_history, current_file_uri, remote,
                   temp_files, turns>>

\* a handle is taken whatever its state
Accepted_Any(f) == TRUE

\* lines 109-111: a handle the loop ends with is taken unless it is FAILED
Accepted(f) == f.state # FAILED

\* the loop has ended (lines 109-118): FAILED is reported, the temporary
\* file removed and the run goes on; any other state makes the handle the
\* current file (line 112), and after time.sleep(1) st.rerun() leaves the
\* handler at line 115: the restarted run is the step Restarted
UploadFinish(ok) ==
    /\ pc = "polling"
    /\ gemini_file.state # PROCESSING
    /\ event' = "upload"
    /\ IF Accepted(gemini_file)
       THEN /\ current_file_uri' = gemini_file
            /\ pc' = "restarting"
            /\ UNCHANGED <<temp_files, gemini_file, temp_filename, calls,
                           notices, active_files, request_content,
                           load_button, chat_input>>
       ELSE /\ temp_files' = temp_files \ {temp_filename}
            /\ pc' = "idle"
            /\ gemini_file' = None
            /\ temp_filename' = ""
            /\ UNCHANGED current_file_uri
            /\ LET p == Pass(calls, chat_mode, current_file_uri, store, ok)
               IN  EndRun([p EXCEPT
                             !.notices = @ \cup {"File processing failed."}])
    /\ UNCHANGED <<api_key, chat_mode, chat_history, remote, turns>>

\* the run restarted by st.rerun() at line 115, line 138 or line 155: none
\* of its widgets is pressed, and the locals of the upload handler are gone;
\* it adds its calls and notices to those of the run that restarted it
Restarted(ok) ==
    /\ pc \in {"restarting", "clearing"}
    /\ pc' = "idle"
    /\ event' = IF pc = "clearing" THEN "clear"
                ELSE IF gemini_file = None THEN "load" ELSE "upload"
    /\ gemini_file' = None
    /\ temp_filename' = ""
    /\ LET p == Pass(calls, chat_mode, current_file_uri, store, ok)
       IN  EndRun([p EXCEPT !.notices = @ \cup notices])
    /\ UNCHANGED <<api_key, chat_mode, chat_history, current_file_uri, remote,
                   temp_files, turns>>

-----------------------------------------------------------------------------
(* The remote store, which other clients and the service itself change *)

session == <<api_key, chat_mode, chat_history, current_file_uri, temp_files,
             upload_locals, turns>>

\* calls, notices, active_files and request_content describe the run that has
\* just ended, against the store as that run saw it; they are blank once the
\* store has moved on.  While a run is waiting (polling, restarting,
\* generating) it has not ended, and they are kept.  The page stays as
\* rendered.
Elapsed ==
    /\ event' = "store"
    /\ UNCHANGED <<load_button, chat_input>>
    /\ IF pc # "idle"
       THEN UNCHANGED <<calls, notices, active_files, request_content>>
       ELSE /\ calls' = NoCalls
            /\ notices' = {}
            /\ active_files' = <<>>
            /\ request_content' = <<>>

\* the service finishes processing a file
StoreProcess(i, s) ==
    /\ i \in DOMAIN store
    /\ store[i].state = PROCESSING
    /\ store' = [store EXCEPT ![i].state = s]
    /\ Elapsed
    /\ UNCHANGED <<next_id, session>>

\* a file is uploaded by another client
StoreAdd(display_name, s) ==
    /\ next_id < MaxFiles
    /\ store' = Append(store, [name |-> IdName(next_id + 1),
                               display_name |-> display_name, state |-> s])
    /\ next_id' = next_id + 1
    /\ Elapsed
    /\ UNCHANGED session

\* the service deletes the oldest file, as it does when files expire
StoreExpire ==
    /\ store # <<>>
    /\ store' = Tail(store)
    /\ Elapsed
    /\ UNCHANGED <<next_id, session>>

-----------------------------------------------------------------------------

Next ==
    \/ BlockedRun
    \/ \E k \in Keys :
          \* a run without a key lists nothing; one with a key renders the radio
          \E ok \in (IF ApiKey(k) = NoKey THEN {TRUE} ELSE BOOLEAN),
             kept \in (IF ApiKey(k) = NoKey THEN BOOLEAN ELSE {TRUE}) :
             SetApiKey(k, ok, kept)
    \/ \E m \in Modes, ok \in BOOLEAN : SetMode(m, ok)
    \/ \E ok \in BOOLEAN : Refresh(ok)
    \/ \E ok1 \in BOOLEAN : Clear(ok1)
    \/ \E l \in DisplayNames \cup FileNames \cup {IdName(n) : n \in 1..MaxFiles} :
          LoadSelected(l)
    \/ LoadUnlisted
    \/ LoadNothingListed
    \/ \E ok \in BOOLEAN : SubmitTurn(ok)
    \/ \E answered \in BOOLEAN : GenerationReturns(answered)
    \/ \E n \in FileNames, s \in States : UploadBegin(n, s)
    \/ \E n \in FileNames, out \in UploadErrors, ok \in BOOLEAN :
          UploadRaises(n, out, ok)
    \/ UploadPoll
    \/ \E ok \in BOOLEAN : UploadPollRaises(ok)
    \/ \E ok \in BOOLEAN : UploadFinish(ok)
    \/ \E ok \in BOOLEAN : Restarted(ok)
    \/ \E i \in 1..MaxFiles, s \in {ACTIVE, FAILED} : StoreProcess(i, s)
    \/ \E d \in DisplayNames, s \in ForeignStates : StoreAdd(d, s)
    \/ StoreExpire

Spec == Init /\ [][Next]_vars

-----------------------------------------------------------------------------
(* Claims *)

\* the text part of the latest generation request
LastPrompt == request_content[Len(request_content)].text

\* the files of the latest generation request, in order
LastFiles ==
    [i \in 1..(Len(request_content) - 1) |-> request_content[i].file]

AllAnswered == \A i \in DOMAIN turns : turns[i].ok

\* the number of turns whose user text is in the conversation and whose
\* generation call has not returned yet
Pending == IF pc = "generating" THEN 1 ELSE 0

\* a step that is the run of a submitted chat text
SubmitRun == pc = "idle" /\ event' = "submit"

\* C1: while every generation call since the conversation was last empty has
\* succeeded, the conversation is the N turns in submission order, each as
\* its user text followed by the text returned for it: 2N entries (and the
\* user text of the turn whose generation call is still running, if any).
C1_PairsInOrder ==
    AllAnswered =>
        /\ Len(chat_history) = 2 * Len(turns) + Pending
        /\ \A i \in DOMAIN turns :
              /\ chat_history[2 * i - 1] = <<"user", turns[i].q>>
              /\ chat_history[2 * i] = <<"assistant", turns[i].text>>
        /\ Pending = 1 =>
              chat_history[Len(chat_history)] = <<"user", Msg(Len(turns) + 1)>>

C1_Witness ==
    /\ Len(turns) = 2
    /\ AllAnswered
    /\ pc = "idle"
    /\ event = "submit"
    /\ chat_history = << <<"user", Msg(1)>>, <<"assistant", Resp(1)>>,
                         <<"user", Msg(2)>>, <<"assistant", Resp(2)>> >>

\* the turns before the k-th were all answered and the k-th was not
FirstFailure(k) ==
    /\ k \in DOMAIN turns
    /\ ~turns[k].ok
    /\ \A i \in 1..(k - 1) : turns[i].ok

\* what a prompt ends with when its newest text follows the unanswered text
\* of the turn before it, with no assistant line in between
UnansweredThenNew(asked_before, asked_now) ==
    <<"USER", ": ">> \o asked_before \o <<"\n">>
    \o <<"\n", "USER", ": ">> \o asked_now \o <<"\n", "ASSISTANT", ":">>

EndsWith(text, tail) ==
    /\ Len(text) >= Len(tail)
    /\ SubSeq(text, Len(text) - Len(tail) + 1, Len(text)) = tail

\* C2: when turns 1..k-1 were answered and the generation call of turn k
\* raised, then right after turn k the conversation has 2k-1 entries and ends
\* with turn k's user text, and the prompt of turn k+1 ends with turn k's
\* user line directly followed by the new user text.
C2_FailedTurnLeavesQuestion ==
    \A k \in DOMAIN turns :
        FirstFailure(k) =>
            /\ (k = Len(turns) /\ pc # "generating") =>
                  /\ Len(chat_history) = 2 * k - 1
                  /\ chat_history[2 * k - 1] = <<"user", turns[k].q>>
            /\ (k = Len(turns) /\ pc = "generating") =>
                  EndsWith(LastPrompt,
                           UnansweredThenNew(turns[k].q, Msg(k + 1)))
            /\ (k + 1 = Len(turns) /\ pc # "generating"
                  /\ request_content # <<>>) =>
                  EndsWith(LastPrompt,
                           UnansweredThenNew(turns[k].q, turns[k + 1].q))

C2_Witness ==
    /\ Len(turns) = 2
    /\ FirstFailure(1)
    /\ request_content # <<>>
    /\ chat_history[1] = <<"user", Msg(1)>>
    /\ chat_history[2] = <<"user", Msg(2)>>

NoGeneration ==
    /\ calls["generate_content"] = 0
    /\ request_content = <<>>

\* C3: a turn submitted in Single mode with no current file leaves the
\* conversation as it was and makes no generation call (a run in Single
\* mode with no current file does not even render the chat input); with a
\* current file H the files resolved, and sent, are exactly <<H>>, whatever
\* the store lists.
C3_SingleResolve ==
    [][/\ (event' = "submit" /\ chat_mode = Single) =>
             IF current_file_uri = None
             THEN /\ chat_history' = chat_history
                  /\ NoGeneration'
             ELSE /\ active_files' = <<current_file_uri>>
                  /\ request_content' # <<>>
                  /\ LastFiles' = <<current_file_uri>>
       /\ (chat_mode' = Single /\ current_file_uri' = None) =>
             /\ ~chat_input'
             /\ NoGeneration']_vars

C3_Witness ==
    /\ event = "submit"
    /\ chat_mode = Single
    /\ Len(store) = 2
    /\ \A i \in DOMAIN store : store[i] # current_file_uri
    /\ active_files = <<current_file_uri>>
    /\ calls["generate_content"] = 1

\* C4: a turn submitted in All mode whose listing call returns resolves, and
\* sends, exactly the store's listing of that moment in listing order,
\* whatever the current file is; when the listing is empty the conversation
\* is left as it was and no generation call is made.
C4_AllResolve ==
    [][/\ (SubmitRun /\ chat_mode = All
             /\ "Failed to fetch files" \notin notices') =>
             IF store' = <<>>
             THEN /\ chat_history' = chat_history
                  /\ NoGeneration'
             ELSE /\ active_files' = store'
                  /\ request_content' # <<>>
                  /\ LastFiles' = store'
       /\ pc = "generating" =>
             UNCHANGED <<active_files, request_content>>]_vars

C4_Witness ==
    /\ event = "submit"
    /\ chat_mode = All
    /\ current_file_uri # None
    /\ Len(store) = 2
    /\ active_files = store
    /\ calls["generate_content"] = 1
    /\ Len(turns) = 2

\* C5: the current file is never a handle in state FAILED.
C5_ActiveNeverFailed == current_file_uri.state # FAILED

\* C6: once an upload has ended, the temporary file written for it is not in
\* the working directory.
C6_TempFileGone ==
    (event = "upload" /\ pc = "idle") => temp_files = {}

\* C7: an upload whose loop sees the handle ACTIVE ends with that handle as
\* the current file, and no other step of an upload changes the current
\* file.
C7_ReadyBecomesActive ==
    [][event' = "upload" =>
          IF pc = "polling" /\ gemini_file.state = ACTIVE
          THEN /\ pc' = "restarting"
               /\ current_file_uri' = gemini_file
          ELSE current_file_uri' = current_file_uri]_vars

C7_Witness ==
    /\ event = "upload"
    /\ pc = "idle"
    /\ calls["get_file"] >= 1
    /\ current_file_uri =
          [name |-> IdName(2), display_name |-> "a.pdf", state |-> ACTIVE]

\* the prompt of the first turn of a conversation
FirstPrompt(text) ==
    system_prompt \o <<"\n", "\n", "\n", "USER", ": ">> \o text
    \o <<"\n", "ASSISTANT", ":">>

\* C8: clear empties the conversation and leaves the current file and the
\* mode as they were; a turn submitted in Single mode right after it goes to
\* generation with the same <<H>> and a prompt that holds the instruction
\* block and the new text only.
C8_ClearKeepsFile ==
    [][/\ event' = "clear" =>
             /\ chat_history' = <<>>
             /\ current_file_uri' = current_file_uri
             /\ chat_mode' = chat_mode
       /\ (event = "clear" /\ event' = "submit" /\ chat_mode = Single
             /\ current_file_uri # None) =>
             /\ LastFiles' = <<current_file_uri>>
             /\ LastPrompt' = FirstPrompt(Msg(1))]_vars

C8_Witness ==
    /\ event = "clear"
    /\ chat_mode = Single
    /\ current_file_uri # None
    /\ chat_history = <<>>
    /\ active_files = <<current_file_uri>>
    /\ calls["generate_content"] = 0

\* the conversation as it was before the latest turn, and that turn's text
NewText ==
    IF pc = "generating" THEN chat_history[Len(chat_history)][2]
    ELSE turns[Len(turns)].q
Prior ==
    SubSeq(chat_history, 1,
           Len(chat_history) - (IF pc = "generating" THEN 1
                                ELSE IF turns[Len(turns)].ok THEN 2 ELSE 1))

RoleTag(entry) == IF entry[1] = "user" THEN "USER" ELSE "ASSISTANT"

\* where the line of the i-th prior entry starts in the prompt
RECURSIVE LineStart(_)
LineStart(i) ==
    IF i = 1 THEN Len(system_prompt) + 3
    ELSE LineStart(i - 1) + Len(Prior[i - 1][2]) + 3

\* C9: the prompt of a turn is the instruction block and an empty line, then
\* for each entry the conversation held before the turn, in order, the line
\* "<ROLE>: <text>", then an empty line, "USER: " with the new text, and the
\* line "ASSISTANT:"; nothing else.
C9_PromptShape ==
    request_content # <<>> =>
        LET p == LastPrompt
            n == Len(Prior)
            tail == LineStart(n + 1)
        IN  /\ SubSeq(p, 1, Len(system_prompt)) = system_prompt
            /\ SubSeq(p, Len(system_prompt) + 1, Len(system_prompt) + 2)
                  = <<"\n", "\n">>
            /\ \A i \in 1..n :
                  LET at == LineStart(i)
                      text == Prior[i][2]
                  IN  /\ p[at] = RoleTag(Prior[i])
                      /\ p[at + 1] = ": "
                      /\ SubSeq(p, at + 2, at + 1 + Len(text)) = text
                      /\ p[at + 2 + Len(text)] = "\n"
            /\ SubSeq(p, tail, tail + 2) = <<"\n", "USER", ": ">>
            /\ SubSeq(p, tail + 3, tail + 2 + Len(NewText)) = NewText
            /\ SubSeq(p, tail + 3 + Len(NewText), Len(p))
                  = <<"\n", "ASSISTANT", ":">>

C9_Witness ==
    /\ request_content # <<>>
    /\ Len(Prior) = 2
    /\ Prior[2][1] = "assistant"
    /\ NewText = Msg(2)

\* C10: a step that ends with the key input empty has made no remote call
\* and has left the conversation and the current file as they were.
C10_NoKeyNothingRuns ==
    [][api_key' = NoInput =>
          /\ calls' = NoCalls
          /\ request_content' = <<>>
          /\ chat_history' = chat_history
          /\ current_file_uri' = current_file_uri]_vars

C10_Witness ==
    /\ api_key = NoInput
    /\ event = "blocked"
    /\ chat_history # <<>>
    /\ current_file_uri # None
    /\ store # <<>>

-----------------------------------------------------------------------------

\* a step that ends the upload handler with its handle taken as current file
EndsReady ==
    pc = "polling" /\ pc' = "restarting" /\ gemini_file.state = ACTIVE

\* C11: an upload that does not end with its handle ready (the handle is
\* FAILED, or open, write, upload_file or get_file raises) changes neither
\* the current file nor the conversation nor the mode: no step of the upload
\* handler other than the finish on a ready handle, and no step taken while
\* the handler polls, changes any of the three
C11_FailedUploadChangesNothing ==
    [][((event' = "upload" \/ pc = "polling") /\ ~EndsReady)
         => UNCHANGED <<current_file_uri, chat_history, chat_mode>>]_vars

\* an upload has ended FAILED in a session that had a current file and a
\* conversation
C11_Witness ==
    /\ event = "upload"
    /\ pc = "idle"
    /\ "File processing failed." \in notices
    /\ current_file_uri # None
    /\ chat_history # <<>>

-----------------------------------------------------------------------------
(* The poll loop as a running thread *)

\* the while test fails (line 105) and the handler goes on to line 109
LoopEnds == \E ok \in BOOLEAN : UploadFinish(ok)

\* get_file (line 107) is called for a handle the store no longer holds
LostHandle ==
    /\ get_file(store, gemini_file.name) = None
    /\ \E ok \in BOOLEAN : UploadPollRaises(ok)

\* the script restarts: st.rerun() after time.sleep(1) (lines 114-115),
\* after a load (line 138) or after a clear (line 155)
ScriptRestarts == \E ok \in BOOLEAN : Restarted(ok)

\* the next step of the script thread while it is in the upload handler or
\* restarting: at any moment at most one of the four is enabled
ScriptStep == UploadPoll \/ LoopEnds \/ LostHandle \/ ScriptRestarts

\* The script thread keeps running: time.sleep(2) returns and the next
\* get_file is made (lines 105-107), the loop is left once the fetched state
\* is not PROCESSING, a get_file for a missing handle raises, and after
\* time.sleep(1) the script restarts.  Nothing is assumed about the store,
\* about calls that may or may not raise, or about the generation call.
FairSpec == Spec /\ WF_vars(ScriptStep)

\* the store holds the polled handle in a state other than PROCESSING, or
\* does not hold it any more
StoreSettled ==
    \A i \in DOMAIN store :
        store[i].name = gemini_file.name => store[i].state # PROCESSING

\* C12: the loop of lines 105-107 has no bound.  Once the store no longer
\* reports PROCESSING for the polled handle (or no longer holds it, so that
\* get_file raises) the upload handler eventually ends; while the fetched
\* state is PROCESSING the handler ends only by a reported exception, and
\* while it polls no other action of the session is processed: every step
\* is a step of the handler or of the store, and conversation, mode and key
\* stay as they are.
C12_PollUntilSettled ==
    /\ (pc = "polling" /\ StoreSettled) ~> (pc = "idle")
    /\ [][pc = "polling" =>
            /\ event' \in {"upload", "store"}
            /\ UNCHANGED <<api_key, chat_mode, chat_history, turns>>
            /\ gemini_file.state = PROCESSING =>
                  \/ pc' = "polling"
                  \/ pc' = "idle" /\ "Upload failed" \in notices']_vars

\* an upload has ended with its handle taken after the loop fetched the
\* state more than once
C12_Witness ==
    /\ event = "upload"
    /\ pc = "idle"
    /\ calls["get_file"] >= 2
    /\ current_file_uri # None
    /\ current_file_uri.state = ACTIVE

-----------------------------------------------------------------------------

\* the list_files call of the latest run raised: line 139 or line 179
ListingRaised ==
    \/ "Could not list files" \in notices
    \/ "Failed to fetch files" \in notices

\* C13 as stated: a listing call that raises while a turn is handled aborts
\* the turn, with no generation call and with the conversation and the
\* current file left as they were.
C13_ListingErrorAborts ==
    [][(SubmitRun /\ ListingRaised') =>
          /\ calls'["generate_content"] = 0
          /\ UNCHANGED <<chat_history, current_file_uri>>]_vars

\* C13 as amended: a listing call that raises while a turn is handled is
\* reported and leaves the current file as it was.  In All mode (line 179)
\* it stops the run before the user text is appended and before any
\* generation call.  In Single mode (line 139) the listing belongs to the
\* "Select Existing" tab only: the run goes on, and with a current file the
\* turn is appended and sent.
C13_ListingErrorByMode ==
    [][(SubmitRun /\ ListingRaised') =>
          /\ current_file_uri' = current_file_uri
          /\ "Failed to fetch files" \in notices' =>
                /\ chat_mode = All
                /\ pc' = "idle"
                /\ calls'["generate_content"] = 0
                /\ request_content' = <<>>
                /\ UNCHANGED <<chat_history, turns>>
          /\ "Could not list files" \in notices' =>
                /\ chat_mode = Single
                /\ current_file_uri # None
                /\ pc' = "generating"
                /\ calls'["generate_content"] = 1
                /\ Len(chat_history') = Len(chat_history) + 1
                /\ chat_history'[Len(chat_history')][1] = "user"]_vars

\* a turn submitted in All mode, with a conversation, a current file and a
\* file in the store, was stopped by the listing call raising
C13_Witness ==
    /\ event = "submit"
    /\ "Failed to fetch files" \in notices
    /\ chat_mode = All
    /\ chat_history # <<>>
    /\ current_file_uri # None
    /\ store # <<>>

-----------------------------------------------------------------------------

\* the latest request is the files of active_files, in that order, then one
\* text part
FilesThenPrompt ==
    LET n == Len(request_content)
    IN  /\ n = Len(active_files) + 1
        /\ n >= 2
        /\ \A i \in 1..(n - 1) :
              /\ request_content[i].kind = "file"
              /\ request_content[i].file = active_files[i]
        /\ request_content[n].kind = "text"
        /\ request_content[n].text # <<>>

\* C14: a run in which the user text is appended (a submitted turn) makes
\* exactly one generation call: it goes into the call with the resolved
\* files in resolution order and then the prompt as the one last part, at
\* least one file among them, and until the call is over no further call
\* is made and the request stays as it is.  No other step makes a
\* generation call.
C14_OneCallFilesThenPrompt ==
    [][/\ (SubmitRun /\ chat_history' # chat_history) =>
             /\ pc' = "generating"
             /\ calls'["generate_content"] = 1
             /\ FilesThenPrompt'
             /\ active_files' =
                    IF chat_mode = Single THEN <<current_file_uri>> ELSE store
       /\ pc = "generating" =>
             UNCHANGED <<calls, request_content, active_files>>
       /\ (pc # "generating" /\ pc' # "generating") =>
             /\ calls'["generate_content"] = 0
             /\ request_content' = <<>>]_vars

\* a turn was sent with two files in front of the prompt
C14_Witness ==
    /\ event = "submit"
    /\ calls["generate_content"] = 1
    /\ Len(request_content) = 3
    /\ request_content[1].file = store[1]
    /\ request_content[2].file = store[2]
    /\ request_content[3].kind = "text"

-----------------------------------------------------------------------------

Errors ==
    {"Upload failed", "File processing failed.", "Could not list files",
     "Failed to fetch files", "No files found on the server",
     "An error occurred"}

\* the latest run has shown an error or the empty-context warning
ErrorShown == notices \cap Errors # {}

\* the context check of a run started now would let the run through
ContextNonEmpty ==
    IF chat_mode = Single THEN current_file_uri # None ELSE store # <<>>

\* the model's bound on the conversation leaves room for one more turn
HasRoom == Len(chat_history) + 2 <= MaxHist

\* a turn is submitted and reaches the generation call
TurnGenerates == \E ok \in BOOLEAN : SubmitTurn(ok) /\ pc' = "generating"

\* a refresh whose run renders the chat input
RefreshOffersChat == \E ok \in BOOLEAN : Refresh(ok) /\ chat_input'

\* what the session accepts when no run is in progress
Usable ==
    /\ ENABLED (\E ok \in BOOLEAN : Refresh(ok))
    /\ ENABLED (\E ok1 \in BOOLEAN : Clear(ok1))
    /\ ENABLED (\E m \in Modes, ok \in BOOLEAN : SetMode(m, ok))
    /\ ENABLED (\E k \in Keys, ok \in BOOLEAN, kept \in BOOLEAN :
                    SetApiKey(k, ok, kept))
    /\ chat_mode = Single =>
          /\ ENABLED (\E n \in FileNames, out \in UploadErrors,
                         ok \in BOOLEAN : UploadRaises(n, out, ok))
          /\ next_id < MaxFiles =>
                ENABLED (\E n \in FileNames, s \in States : UploadBegin(n, s))
          /\ (load_button /\ store # <<>>) =>
                ENABLED (\E f \in {store[i] : i \in DOMAIN store} :
                            LoadSelected(Label(f)))
    /\ (HasRoom /\ ContextNonEmpty) =>
          IF chat_input THEN ENABLED TurnGenerates
          ELSE ENABLED RefreshOffersChat

\* C15: only the missing key blocks the session.  With the key present, a
\* run that has shown an upload error, a listing error, the empty-context
\* warning or a generation error is over, is restarting after a clear or is
\* waiting in the generation call, never left in the upload handler.  Whenever no run is in progress
\* every action can be taken again: refresh, clear, mode switch, key edit,
\* upload (Single mode), load (the button on the page, files listed) and,
\* with a non-empty context, a turn that reaches the generation call, on
\* the page as it is when it has the chat input and after a refresh when
\* the latest run was stopped by the context check.  The generation call,
\* whether it returns or raises, ends with no run in progress and the chat
\* input on the page.
C15_ErrorsLeaveSessionUsable ==
    /\ [](ApiKey(api_key) # NoKey =>
            /\ ErrorShown => pc \in {"idle", "clearing", "generating"}
            /\ pc = "idle" => Usable)
    /\ [][pc = "generating" =>
            \/ pc' = "generating"
            \/ pc' = "idle" /\ chat_input' /\ ApiKey(api_key') # NoKey]_vars

\* after a turn whose generation call raised, the next turn was sent and
\* answered
C15_Witness ==
    /\ event = "submit"
    /\ pc = "idle"
    /\ Len(turns) = 2
    /\ ~turns[1].ok
    /\ turns[2].ok
    /\ calls["generate_content"] = 1

-----------------------------------------------------------------------------

IsPrefix(a, b) == Len(a) <= Len(b) /\ SubSeq(b, 1, Len(a)) = a

\* C16: only a submitted turn and a clear change the conversation.  A clear
\* empties it; a submitted turn keeps what was there and appends at the end
\* (the user text, and the reply when the call returns one); every other
\* step, an upload, a load, a refresh, a mode switch, a key edit or a
\* change of the store, leaves it as it was.
C16_OnlyAppendOrClear ==
    [][CASE event' = "clear" -> chat_history' = <<>>
         [] event' = "submit" ->
                /\ IsPrefix(chat_history, chat_history')
                /\ Len(chat_history') <= Len(chat_history) + 1
                /\ chat_history' # chat_history =>
                      chat_history'[Len(chat_history')][1] =
                          IF pc = "idle" THEN "user" ELSE "assistant"
         [] OTHER -> chat_history' = chat_history]_vars

\* a second turn was sent in All mode against two listed files, the first
\* of them not the current file, with the first turn still in front of it in
\* the conversation
C16_Witness ==
    /\ event = "submit"
    /\ chat_mode = All
    /\ Len(chat_history) = 4
    /\ Len(active_files) = 2
    /\ current_file_uri # None
    /\ current_file_uri.name # active_files[1].name
    /\ LastPrompt # <<>>

-----------------------------------------------------------------------------

Role(i) == chat_history[i][1]

\* the place in the conversation of the user entry of the k-th turn handled
\* since the conversation was last empty: one entry for each earlier turn
\* and one more for each earlier reply
UserPos(k) == k + Cardinality({j \in 1..(k - 1) : turns[j].ok})

\* C17: the conversation is empty or starts with a user entry; every
\* assistant entry comes right after a user entry; and two user entries
\* follow each other exactly at the turns whose generation call failed and
\* which a further turn has followed.
C17_RolesAlternate ==
    /\ chat_history # <<>> => Role(1) = "user"
    /\ \A i \in DOMAIN chat_history :
          /\ Role(i) \in {"user", "assistant"}
          /\ Role(i) = "assistant" => (i > 1 /\ Role(i - 1) = "user")
    /\ \A i \in 1..(Len(chat_history) - 1) :
          (Role(i) = "user" /\ Role(i + 1) = "user")
              <=> \E k \in 1..(Len(turns) - 1 + Pending) :
                      UserPos(k) = i /\ ~turns[k].ok

\* two failed turns, then an answered one
C17_Witness ==
    /\ Len(turns) = 3
    /\ ~turns[1].ok
    /\ ~turns[2].ok
    /\ turns[3].ok
    /\ Len(chat_history) = 4
    /\ Role(2) = "user"
    /\ Role(3) = "user"
    /\ Role(4) = "assistant"

-----------------------------------------------------------------------------

\* C18: a current file, once there is one, is never taken away: no step
\* sets current_file_uri back to None, and the only steps that change it are
\* the end of an upload whose handle is ready and "Load Selected File".  So
\* the context check of Single mode (line 167), once passed, is passed by
\* every later run made in Single mode.
C18_FileNeverUnset ==
    [][/\ current_file_uri # None => current_file_uri' # None
       /\ current_file_uri' # current_file_uri =>
             \/ event' = "load"
             \/ event' = "upload" /\ EndsReady /\ current_file_uri' = gemini_file
       /\ (current_file_uri # None /\ chat_mode' = Single
             /\ ApiKey(api_key') # NoKey /\ pc' = "idle")
             => /\ chat_input'
                /\ event' \notin {"store", "submit"} =>
                      active_files' = <<current_file_uri'>>]_vars

\* the session is back in Single mode, from All mode, with the current file
\* it had and the context check passed
C18_Witness ==
    /\ event = "mode"
    /\ chat_mode = Single
    /\ current_file_uri # None
    /\ active_files = <<current_file_uri>>
    /\ chat_input
    /\ chat_history # <<>>

-----------------------------------------------------------------------------

\* the labels a listing of the model can show
Labels == DisplayNames \cup FileNames \cup {IdName(n) : n \in 1..MaxFiles}

\* C19: "Load Selected File" with a label chosen makes the current file a
\* handle of the listing of that run whose label (display name, or name when
\* the display name is empty) is the chosen one, and of the listed handles
\* with that label the last in listing order.
C19_LoadsLatestWithLabel ==
    [][event' = "load" =>
          \A l \in Labels :
              LoadSelected(l) =>
                  \E i \in DOMAIN store :
                      /\ current_file_uri' = store[i]
                      /\ Label(store[i]) = l
                      /\ \A j \in (i + 1)..Len(store) :
                            Label(store[j]) # l]_vars

\* two listed files share a label and the load has taken the later one,
\* which differs from the earlier
C19_Witness ==
    /\ event = "load"
    /\ Len(store) = 2
    /\ Label(store[1]) = Label(store[2])
    /\ store[1] # store[2]
    /\ current_file_uri = store[2]
    /\ "Could not list files" \notin notices

=============================================================================
